---- MODULE Spec2Model ----
(***************************************************************************)
(* Model of the browser media cache (src/lib/supabase.ts, image-cache      *)
(* section) and of the streaming POST /api/generate handler.               *)
(*                                                                         *)
(* Strings are modelled by the part of them the code inspects: a url is a  *)
(* record [scheme, id]; url.startsWith('data:') is scheme = "data", an     *)
(* object URL made by URL.createObjectURL has scheme "blob".               *)
(***************************************************************************)
EXTENDS Integers, Sequences, FiniteSets, Bags, TLC

\* ------------------------------------------------------------------ bounds
\* Capacity of the memory tier. The source sets 100 (supabase.ts:574); the
\* model runs the same code with a small capacity so that eviction happens.
MAX_MEMORY_CACHE == 2
\* Number of distinct remote (https) urls the callers ask for.
MaxUrls == 3
\* Number of getCachedImageUrl calls that can be pending at once: in Spec, where
\* time passes and images are preloaded, and in ConcSpec, where calls overlap.
MaxCalls == 1
MaxConcurrentCalls == 2
\* Number of object URLs created over a run (successful network fetches).
MaxBlobs == 3
\* Number of clock advances over a run.
MaxTicks == 1
\* Number of remote urls that components preload.
MaxPreloadUrls == 1
\* useElements: elements in the list, uuids handed out, photos added at once.
MaxElements == 2
MaxUuids == 7
MaxBatch == 3
\* importElements: the id of an imported element and the sizes of its photo list.
ImportedId == 100
\* elements tables: rows inserted in all, addPhotoToElement calls between their
\* select and their insert, the highest position.
MaxRows == 5
MaxPhotoCalls == 2
MaxPosition == 2
\* Home: generations started, images of a batch (the select offers 1 to 4,
\* CinemaStudio.tsx:1373), conversations on the server, loadConversation calls,
\* advances of Date.now().
MaxBatches == 2
MaxImageCount == 2
MaxRequests == 3
MaxConvs == 3
MaxLoads == 1
MaxPageTicks == 1
ImportedPhotoCounts == {0, 5, 6}

\* ------------------------------------------------------------------ values
MAX_CACHE_AGE == 7 * 24 * 60 * 60 * 1000
\* The clock advances by one of these: a record is read at age 0, at exactly
\* MAX_CACHE_AGE and beyond it.
TickSteps == {MAX_CACHE_AGE, MAX_CACHE_AGE + 1}

DataUrl == [scheme |-> "data", id |-> 0]
RemoteUrls == {[scheme |-> "https", id |-> i] : i \in 1..MaxUrls}
\* Callers never pass an empty url (CinemaStudio.tsx:211 and :268 filter it).
Urls == RemoteUrls \cup {DataUrl}
PreloadableUrls == {u \in RemoteUrls : u.id <= MaxPreloadUrls}
BlobUrl(n) == [scheme |-> "blob", id |-> n]
NoUrl == [scheme |-> "", id |-> 0]

startsWith(url, scheme) == url.scheme = scheme
\* JavaScript truthiness of a string: non-empty.
Truthy(s) == s # NoUrl

VARIABLES
    memoryCache,    \* Map<string,string> as the sequence of its entries, insertion order
    live,           \* object URLs of the current page session that are not revoked
    nextBlob,       \* number of object URLs created so far
    db,             \* the Dexie table images: set of records
    nextId,         \* the table's auto-increment key
    now,            \* Date.now()
    ticks,          \* number of clock advances
    calls,          \* the pending getCachedImageUrl calls (a bag)
    preloadingUrls, \* Set
    preloadedUrls,  \* Set
    scheduled,      \* urls whose idle callback (preload) has not run yet
    clearing,       \* clearImageCache is awaiting db.images.clear()
    last,           \* the getCachedImageUrl resolution made by the last step, if any
    insOrder,       \* keys of the memory tier in the order they were inserted
    lastInsert,     \* the insertion into the memory tier made by the last step, if any
    lastFault,      \* the IndexedDB operation that threw in the last step, if any
    \* POST /api/generate, streaming (unnamed/part_001:29-205)
    req,            \* the request: what its body and the environment hold
    hpc,            \* where the start() callback of the stream is
    events,         \* the NDJSON events enqueued so far
    closed,         \* number of controller.close() calls
    isNewConversation,
    previousImages, \* ids of the conversation's images, most recent first
    referenceImageData,
    resultKind,     \* what generateImage returned
    imageUrl,       \* the handler's imageUrl
    uploadOutcome,  \* how the storage upload went
    effects,        \* the calls the handler has made that write or generate
    \* useElements (src/src/hooks/useElements.ts)
    elements,       \* the state elements: a list of [id, photos]
    nextUuid,       \* number of uuids handed out
    lastAdd,        \* what the last step's addPhoto / addPhotos found and returned
    \* the tables elements and element_photos (migrations, src/src/lib/supabase.ts:331-535)
    elementsTable,  \* ids of the rows of elements
    elementPhotos,  \* rows of element_photos: [id, element_id, position]
    nextRowId,      \* number of row ids handed out
    photoCalls,     \* addPhotoToElement calls that have yet to insert (a bag)
    deletedElements, \* ids deleteElement has deleted
    lastCascade,    \* number of photo rows the last step's deleteElement took along
    \* Home (unnamed/part_000:36-322)
    conversationId,     \* the state conversationId, 0 for null
    generatedContent,   \* the state generatedContent
    generationSlots,    \* the state generationSlots
    activeGenerations,  \* the state activeGenerations
    batches,            \* the handleImageGenerate / handleVideoGenerate calls: their closures
    requests,           \* the generation requests in flight
    timers,             \* batches whose setTimeout callback has yet to run
    nextConv,           \* number of conversations on the server
    createdBy,          \* which batch's request made which conversation
    loads,              \* conversations whose loadConversation fetch is in flight
    loadsDone,          \* number of loadConversation calls answered
    pageNow,            \* Date.now() of the page
    lastSettle          \* the answer and the settling of the request the last step settled

cacheVars == <<memoryCache, live, nextBlob, db, nextId, now, ticks, calls,
               preloadingUrls, preloadedUrls, scheduled, clearing, last, insOrder,
               lastInsert, lastFault>>
genVars == <<req, hpc, events, closed, isNewConversation, previousImages,
             referenceImageData, resultKind, imageUrl, uploadOutcome, effects>>
elemVars == <<elements, nextUuid, lastAdd>>
dbVars == <<elementsTable, elementPhotos, nextRowId, photoCalls, deletedElements,
            lastCascade>>
pageVars == <<conversationId, generatedContent, generationSlots, activeGenerations,
              batches, requests, timers, nextConv, createdBy, loads, loadsDone, pageNow,
              lastSettle>>
\* What the steps of one part of the program leave alone.
notCacheVars == <<genVars, elemVars, dbVars, pageVars>>
notGenVars == <<cacheVars, elemVars, dbVars, pageVars>>
notElemVars == <<cacheVars, genVars, dbVars, pageVars>>
notDbVars == <<cacheVars, genVars, elemVars, pageVars>>
notPageVars == <<cacheVars, genVars, elemVars, dbVars>>

\* ------------------------------------------------------------------ Map
MapKeys(m) == {m[i].url : i \in 1..Len(m)}
MapHas(m, k) == k \in MapKeys(m)
MapGet(m, k) == IF MapHas(m, k)
                THEN (CHOOSE e \in {m[i] : i \in 1..Len(m)} : e.url = k).blobUrl
                ELSE NoUrl
\* Map.prototype.set: an existing key keeps its place, a new key goes last.
MapSet(m, k, v) ==
    IF MapHas(m, k)
    THEN [i \in 1..Len(m) |-> IF m[i].url = k THEN [url |-> k, blobUrl |-> v] ELSE m[i]]
    ELSE Append(m, [url |-> k, blobUrl |-> v])
MapDelete(m, k) == SelectSeq(m, LAMBDA e : e.url # k)
\* memoryCache.keys().next().value (undefined on an empty map)
MapFirstKey(m) == IF Len(m) > 0 THEN m[1].url ELSE NoUrl

\* ------------------------------------------------------------------ memory tier
\* addToMemoryCache evicting the newest entry instead of the oldest.
addToMemoryCacheEvictLast(m, url, blobUrl) ==
    IF Len(m) >= MAX_MEMORY_CACHE
    THEN LET k == m[Len(m)].url
             old == MapGet(m, k)
         IN [cache |-> MapSet(MapDelete(m, k), url, blobUrl),
             revoked |-> IF Truthy(old) /\ startsWith(old, "blob") THEN {old} ELSE {},
             evicted |-> {k}]
    ELSE [cache |-> MapSet(m, url, blobUrl), revoked |-> {}, evicted |-> {}]

\* addToMemoryCache without the final memoryCache.set.
addToMemoryCacheNoSet(m, url, blobUrl) ==
    [cache |-> m, revoked |-> {}, evicted |-> {}]

\* addToMemoryCache without the capacity check.
addToMemoryCacheNoEvict(m, url, blobUrl) ==
    [cache |-> MapSet(m, url, blobUrl), revoked |-> {}, evicted |-> {}]

\* addToMemoryCache: the new map, the object URLs it revoked and the keys it
\* deleted before the set.
addToMemoryCache(m, url, blobUrl) ==
    IF Len(m) >= MAX_MEMORY_CACHE
    THEN LET firstKey == MapFirstKey(m)
         IN IF Truthy(firstKey)
            THEN LET oldBlobUrl == MapGet(m, firstKey)
                 IN [cache |-> MapSet(MapDelete(m, firstKey), url, blobUrl),
                     revoked |-> IF Truthy(oldBlobUrl) /\ startsWith(oldBlobUrl, "blob")
                                 THEN {oldBlobUrl} ELSE {},
                     evicted |-> {firstKey}]
            ELSE [cache |-> MapSet(m, url, blobUrl), revoked |-> {}, evicted |-> {}]
    ELSE [cache |-> MapSet(m, url, blobUrl), revoked |-> {}, evicted |-> {}]

\* getFromMemoryCache: memoryCache.get(url) || null
getFromMemoryCache(m, url) ==
    IF Truthy(MapGet(m, url)) THEN MapGet(m, url) ELSE NoUrl

isInMemoryCache(m, url) == MapHas(m, url)

\* The order in which the keys present were inserted, after the keys in deleted
\* were deleted and url was set: a key that is set while absent is the newest.
InsOrderAfter(ord, deleted, url) ==
    LET kept == SelectSeq(ord, LAMBDA k : k \notin deleted)
    IN IF \E i \in 1..Len(kept) : kept[i] = url THEN kept ELSE Append(kept, url)

\* ------------------------------------------------------------------ IndexedDB tier
RecordsOf(table, url) == {r \in table : r.url = url}
\* db.images.where('url').equals(url).first(): lowest primary key
FirstRecord(table, url) ==
    CHOOSE r \in RecordsOf(table, url) : \A o \in RecordsOf(table, url) : r.id <= o.id

\* The read path treating every record as expired.
IsFreshNever(cached, t) == FALSE

\* The read path keeping a record that is exactly MAX_CACHE_AGE old.
IsFreshInclusive(cached, t) == t - cached.timestamp <= MAX_CACHE_AGE

\* getFromIndexedDB's test: Date.now() - cached.timestamp < MAX_CACHE_AGE
IsFresh(cached, t) == t - cached.timestamp < MAX_CACHE_AGE

\* ------------------------------------------------------------------ calls
NoResolution == [via |-> "none", url |-> NoUrl, value |-> NoUrl,
                 fetched |-> FALSE, origin |-> "none", cachedAtStart |-> FALSE]
NoInsert == [url |-> NoUrl, wasFull |-> FALSE, wasNew |-> FALSE, removed |-> {},
             oldest |-> NoUrl]

\* Some record of url is unexpired at time t.
HasFreshRecord(table, url, t) ==
    \E r \in RecordsOf(table, url) : t - r.timestamp < MAX_CACHE_AGE

Pending == BagToSet(calls)
Without(call) == calls (-) SetToBag({call})
With(bag, call) == bag (+) SetToBag({call})

\* The step resolved no call, inserted nothing and no IndexedDB operation threw.
Quiet ==
    /\ last' = NoResolution
    /\ lastInsert' = NoInsert
    /\ lastFault' = "none"

\* The promise of a getCachedImageUrl call settles. For a call made by
\* preloadImage the .then/.catch/.finally callbacks run (supabase.ts:702-711).
Resolve(url, origin, via, value, fetched, cas) ==
    /\ last' = [via |-> via, url |-> url, value |-> value, fetched |-> fetched,
                origin |-> origin, cachedAtStart |-> cas]
    /\ IF origin = "preload"
       THEN /\ preloadedUrls' = IF via = "rejected" THEN preloadedUrls
                                ELSE preloadedUrls \cup {url}
            /\ preloadingUrls' = preloadingUrls \ {url}
       ELSE UNCHANGED <<preloadedUrls, preloadingUrls>>

\* addToMemoryCache(url, ...) has made the map r.cache: what the insertion found
\* and did.
InsertMemory(url, r) ==
    /\ memoryCache' = r.cache
    /\ insOrder' = InsOrderAfter(insOrder, r.evicted, url)
    /\ lastInsert' = [url |-> url,
                      wasFull |-> Len(memoryCache) = MAX_MEMORY_CACHE,
                      wasNew |-> ~MapHas(memoryCache, url),
                      removed |-> MapKeys(memoryCache) \ MapKeys(r.cache),
                      oldest |-> IF insOrder = <<>> THEN NoUrl ELSE Head(insOrder)]

\* getCachedImageUrl up to its first await (supabase.ts:640-652).
StartCall(url, origin, limit) ==
    /\ IF startsWith(url, "data")
       THEN /\ Resolve(url, origin, "data", url, FALSE, FALSE)
            /\ UNCHANGED calls
       ELSE IF Truthy(getFromMemoryCache(memoryCache, url))
       THEN /\ Resolve(url, origin, "memory", getFromMemoryCache(memoryCache, url),
                       FALSE, FALSE)
            /\ UNCHANGED calls
       ELSE /\ BagCardinality(calls) < limit
            /\ calls' = With(calls, [pc |-> "idbRead", url |-> url, origin |-> origin,
                                     blobUrl |-> NoUrl, ts |-> 0,
                                     cachedAtStart |-> HasFreshRecord(db, url, now)])
            /\ last' = NoResolution
            /\ UNCHANGED <<preloadedUrls, preloadingUrls>>
    /\ lastInsert' = NoInsert
    /\ lastFault' = "none"
    /\ UNCHANGED <<memoryCache, insOrder, live, nextBlob, db, nextId, now, ticks,
                   clearing>>

\* A caller (a component) calls getCachedImageUrl(url).
GetCachedImageUrl(url, limit) ==
    /\ StartCall(url, "direct", limit)
    /\ UNCHANGED scheduled

\* getFromIndexedDB's read completes (supabase.ts:603-619), then the promotion
\* of getCachedImageUrl (supabase.ts:653-658).
IdbRead(call) ==
    /\ call.pc = "idbRead"
    /\ LET url == call.url
       IN \/ \* the read throws: caught, null
             /\ calls' = With(Without(call), [call EXCEPT !.pc = "fetch"])
             /\ last' = NoResolution
             /\ lastInsert' = NoInsert
             /\ lastFault' = "read"
             /\ UNCHANGED <<memoryCache, insOrder, live, preloadedUrls, preloadingUrls>>
          \/ \* no record
             /\ RecordsOf(db, url) = {}
             /\ calls' = With(Without(call), [call EXCEPT !.pc = "fetch"])
             /\ Quiet
             /\ UNCHANGED <<memoryCache, insOrder, live, preloadedUrls, preloadingUrls>>
          \/ \* an expired record: delete it first
             /\ RecordsOf(db, url) # {}
             /\ ~IsFresh(FirstRecord(db, url), now)
             /\ calls' = With(Without(call), [call EXCEPT !.pc = "idbDelete"])
             /\ Quiet
             /\ UNCHANGED <<memoryCache, insOrder, live, preloadedUrls, preloadingUrls>>
          \/ \* an unexpired record: promote and return
             /\ RecordsOf(db, url) # {}
             /\ IsFresh(FirstRecord(db, url), now)
             /\ LET cached == FirstRecord(db, url)
                    r == addToMemoryCache(memoryCache, url, cached.blobUrl)
                IN /\ InsertMemory(url, r)
                   /\ live' = live \ r.revoked
                   /\ calls' = Without(call)
                   /\ lastFault' = "none"
                   /\ Resolve(url, call.origin, "idb", cached.blobUrl, FALSE,
                              call.cachedAtStart)
    /\ UNCHANGED <<nextBlob, db, nextId, now, ticks, scheduled, clearing>>

\* getFromIndexedDB's delete of the expired records completes (supabase.ts:610-613).
IdbDelete(call) ==
    /\ call.pc = "idbDelete"
    /\ \/ /\ db' = db \ RecordsOf(db, call.url)
          /\ lastFault' = "none"
       \/ /\ db' = db     \* the delete throws: caught
          /\ lastFault' = "delete"
    /\ calls' = With(Without(call), [call EXCEPT !.pc = "fetch"])
    /\ last' = NoResolution
    /\ lastInsert' = NoInsert
    /\ UNCHANGED <<memoryCache, insOrder, live, nextBlob, nextId, now, ticks,
                   preloadingUrls, preloadedUrls, scheduled, clearing>>

\* The catch block of getCachedImageUrl rethrowing instead of falling back.
FetchFailureRethrows(url) == [via |-> "rejected", value |-> NoUrl]

\* The catch block of getCachedImageUrl (supabase.ts:673-677): the original url.
FetchFailure(url) == [via |-> "fallback", value |-> url]

\* fetch(url) and response.blob() complete (supabase.ts:661-673).
FetchDone(call) ==
    /\ call.pc = "fetch"
    /\ LET url == call.url
       IN \/ \* fetch throws, the response is not ok, or blob() throws
             /\ calls' = Without(call)
             /\ Resolve(url, call.origin, FetchFailure(url).via, FetchFailure(url).value,
                        TRUE, call.cachedAtStart)
             /\ lastInsert' = NoInsert
             /\ UNCHANGED <<memoryCache, insOrder, live, nextBlob>>
          \/ /\ nextBlob < MaxBlobs
             /\ LET blobUrl == BlobUrl(nextBlob + 1)
                    r == addToMemoryCache(memoryCache, url, blobUrl)
                IN /\ nextBlob' = nextBlob + 1
                   /\ InsertMemory(url, r)
                   /\ live' = (live \cup {blobUrl}) \ r.revoked
                   /\ calls' = With(Without(call),
                                    [call EXCEPT !.pc = "idbSave", !.blobUrl = blobUrl,
                                                 !.ts = now])
                   /\ last' = NoResolution
                   /\ UNCHANGED <<preloadedUrls, preloadingUrls>>
    /\ lastFault' = "none"
    /\ UNCHANGED <<db, nextId, now, ticks, scheduled, clearing>>

\* saveToIndexedDB's put completes (supabase.ts:622-636), getCachedImageUrl returns.
IdbSave(call) ==
    /\ call.pc = "idbSave"
    /\ \/ /\ db' = db \cup {[id |-> nextId, url |-> call.url,
                             blobUrl |-> call.blobUrl, timestamp |-> call.ts]}
          /\ nextId' = nextId + 1
          /\ lastFault' = "none"
       \/ /\ UNCHANGED <<db, nextId>>     \* the put throws: caught
          /\ lastFault' = "write"
    /\ calls' = Without(call)
    /\ Resolve(call.url, call.origin, "network", call.blobUrl, TRUE, call.cachedAtStart)
    /\ lastInsert' = NoInsert
    /\ UNCHANGED <<memoryCache, insOrder, live, nextBlob, now, ticks, scheduled, clearing>>

\* preloadImage's first guard without the test of preloadingUrls.
preloadSkipsNoPreloadingTest(url) ==
    url \in preloadedUrls \/ startsWith(url, "data")

\* preloadImage's first guard without the test for data: urls.
preloadSkipsNoDataTest(url) == url \in preloadedUrls \/ url \in preloadingUrls

\* preloadImage's first guard (supabase.ts:686-688).
preloadSkips(url) ==
    url \in preloadedUrls \/ url \in preloadingUrls \/ startsWith(url, "data")

\* preloadImage(url) (supabase.ts:685-719): the idle callback is scheduled.
PreloadImage(url) ==
    /\ ~preloadSkips(url)
    /\ IF isInMemoryCache(memoryCache, url)
       THEN /\ preloadedUrls' = preloadedUrls \cup {url}
            /\ UNCHANGED <<preloadingUrls, scheduled>>
       ELSE /\ preloadingUrls' = preloadingUrls \cup {url}
            /\ scheduled' = scheduled \cup {url}
            /\ UNCHANGED preloadedUrls
    /\ Quiet
    /\ UNCHANGED <<memoryCache, insOrder, live, nextBlob, db, nextId, now, ticks,
                   calls, clearing>>

\* preloadImage(url) returning at its first guard (supabase.ts:686-688).
PreloadImageSkip(url) ==
    /\ preloadSkips(url)
    /\ Quiet
    /\ UNCHANGED <<memoryCache, insOrder, live, nextBlob, db, nextId, now, ticks,
                   calls, preloadingUrls, preloadedUrls, scheduled, clearing>>

\* The idle callback preload() runs (supabase.ts:701-712), with at most limit
\* calls pending.
PreloadRunWithin(url, limit) ==
    /\ url \in scheduled
    /\ scheduled' = scheduled \ {url}
    /\ StartCall(url, "preload", limit)

\* The idle callback preload() runs (supabase.ts:701-712).
PreloadRun(url) == PreloadRunWithin(url, MaxCalls)

\* clearImageCache up to its await (supabase.ts:729-736).
ClearImageCache ==
    /\ ~clearing
    /\ live' = live \ {memoryCache[i].blobUrl : i \in
                          {j \in 1..Len(memoryCache) :
                               startsWith(memoryCache[j].blobUrl, "blob")}}
    /\ memoryCache' = <<>>
    /\ insOrder' = <<>>
    /\ preloadedUrls' = {}
    /\ clearing' = TRUE
    /\ Quiet
    /\ UNCHANGED <<nextBlob, db, nextId, now, ticks, calls, preloadingUrls, scheduled>>

\* db.images.clear() completes (supabase.ts:739-741).
ClearDb ==
    /\ clearing
    /\ clearing' = FALSE
    /\ \/ /\ db' = {}
          /\ lastFault' = "none"
       \/ /\ db' = db     \* the clear throws: clearImageCache rejects
          /\ lastFault' = "clear"
    /\ last' = NoResolution
    /\ lastInsert' = NoInsert
    /\ UNCHANGED <<memoryCache, insOrder, live, nextBlob, nextId, now, ticks, calls,
                   preloadingUrls, preloadedUrls, scheduled>>

\* cleanupExpiredCache (supabase.ts:764-770): where('timestamp').below(cutoff).delete()
cleanupExpiredCache ==
    /\ LET cutoff == now - MAX_CACHE_AGE
       IN db' = {r \in db : ~(r.timestamp < cutoff)}
    /\ Quiet
    /\ UNCHANGED <<memoryCache, insOrder, live, nextBlob, nextId, now, ticks, calls,
                   preloadingUrls, preloadedUrls, scheduled, clearing>>

\* Time passes.
Tick ==
    /\ ticks < MaxTicks
    /\ ticks' = ticks + 1
    /\ \E d \in TickSteps : now' = now + d
    /\ Quiet
    /\ UNCHANGED <<memoryCache, insOrder, live, nextBlob, db, nextId, calls,
                   preloadingUrls, preloadedUrls, scheduled, clearing>>

\* The page is reloaded: module state is rebuilt (supabase.ts:566-574, 682-683),
\* the object URLs of the old document are gone, the IndexedDB table stays.
Reload ==
    /\ memoryCache' = <<>>
    /\ insOrder' = <<>>
    /\ live' = {}
    /\ calls' = EmptyBag
    /\ preloadingUrls' = {}
    /\ preloadedUrls' = {}
    /\ scheduled' = {}
    /\ clearing' = FALSE
    /\ Quiet
    /\ UNCHANGED <<nextBlob, db, nextId, now, ticks>>

\* Remote urls are interchangeable: of the urls the state does not mention, the
\* callers use the lowest-numbered one of each kind first.
KnownUrls ==
    MapKeys(memoryCache) \cup {r.url : r \in db} \cup {c.url : c \in Pending}
        \cup preloadingUrls \cup preloadedUrls \cup scheduled \cup {last.url}
        \cup {lastInsert.url} \cup lastInsert.removed
Lowest(S) == {u \in S : \A o \in S : u.id <= o.id}
InputUrls ==
    {DataUrl} \cup (RemoteUrls \cap KnownUrls)
        \cup Lowest(PreloadableUrls \ KnownUrls)
        \cup Lowest((RemoteUrls \ PreloadableUrls) \ KnownUrls)
PreloadInputs == InputUrls \cap (PreloadableUrls \cup {DataUrl})

CacheInit ==
    /\ memoryCache = <<>>
    /\ insOrder = <<>>
    /\ live = {}
    /\ nextBlob = 0
    /\ db = {}
    /\ nextId = 1
    /\ now = 0
    /\ ticks = 0
    /\ calls = EmptyBag
    /\ preloadingUrls = {}
    /\ preloadedUrls = {}
    /\ scheduled = {}
    /\ clearing = FALSE
    /\ last = NoResolution
    /\ lastInsert = NoInsert
    /\ lastFault = "none"

CacheNext ==
    \/ \E url \in InputUrls : GetCachedImageUrl(url, MaxCalls) /\ UNCHANGED notCacheVars
    \/ \E call \in Pending : IdbRead(call) /\ UNCHANGED notCacheVars
    \/ \E call \in Pending : IdbDelete(call) /\ UNCHANGED notCacheVars
    \/ \E call \in Pending : FetchDone(call) /\ UNCHANGED notCacheVars
    \/ \E call \in Pending : IdbSave(call) /\ UNCHANGED notCacheVars
    \/ \E url \in PreloadInputs : PreloadImage(url) /\ UNCHANGED notCacheVars
    \/ \E url \in PreloadInputs : PreloadImageSkip(url) /\ UNCHANGED notCacheVars
    \/ \E url \in scheduled : PreloadRun(url) /\ UNCHANGED notCacheVars
    \/ ClearImageCache /\ UNCHANGED notCacheVars
    \/ ClearDb /\ UNCHANGED notCacheVars
    \/ cleanupExpiredCache /\ UNCHANGED notCacheVars
    \/ Tick /\ UNCHANGED notCacheVars
    \/ Reload /\ UNCHANGED notCacheVars

\* Overlapping calls, without the clock (no record expires, so no call reaches
\* the delete of getFromIndexedDB) and without preloading.
ConcNext ==
    \/ \E url \in InputUrls : GetCachedImageUrl(url, MaxConcurrentCalls) /\ UNCHANGED notCacheVars
    \/ \E call \in Pending : IdbRead(call) /\ UNCHANGED notCacheVars
    \/ \E call \in Pending : FetchDone(call) /\ UNCHANGED notCacheVars
    \/ \E call \in Pending : IdbSave(call) /\ UNCHANGED notCacheVars
    \/ ClearImageCache /\ UNCHANGED notCacheVars
    \/ ClearDb /\ UNCHANGED notCacheVars
    \/ Reload /\ UNCHANGED notCacheVars

\* Preloading in one page session, next to direct calls for the same urls: a
\* preload and a direct call can be pending together.
PreloadNext ==
    \/ \E url \in PreloadInputs : GetCachedImageUrl(url, MaxConcurrentCalls) /\ UNCHANGED notCacheVars
    \/ \E call \in Pending : IdbRead(call) /\ UNCHANGED notCacheVars
    \/ \E call \in Pending : FetchDone(call) /\ UNCHANGED notCacheVars
    \/ \E call \in Pending : IdbSave(call) /\ UNCHANGED notCacheVars
    \/ \E url \in PreloadInputs : PreloadImage(url) /\ UNCHANGED notCacheVars
    \/ \E url \in PreloadInputs : PreloadImageSkip(url) /\ UNCHANGED notCacheVars
    \/ \E url \in scheduled : PreloadRunWithin(url, MaxConcurrentCalls) /\ UNCHANGED notCacheVars
    \/ ClearImageCache /\ UNCHANGED notCacheVars
    \/ ClearDb /\ UNCHANGED notCacheVars

\* ------------------------------------------------------------------ generate handlers
\* The four POST handlers: the streaming /api/generate (part_001), the JSON
\* /api/generate (route.ts), the JSON handler that optimises before the upload
\* (part_003) and /api/generate-video (part_004). A JSON handler's response is
\* its one event.
Routes == {"stream", "generate", "optimized", "video"}

\* The url generateImage / generateVideo returns (laozhang.ts:575-620): a base64
\* data: url, which may fail the pattern of uploadImageToStorage, a remote url,
\* or (video still processing) none.
ResultKinds == {"dataImage", "dataImageMalformed", "remote"}
ResultKindsOf(route) == IF route = "video" THEN ResultKinds \cup {"pending"} ELSE ResultKinds
ResultUrl(kind) ==
    IF kind = "remote" THEN [scheme |-> "https", id |-> 2]
    ELSE IF kind = "pending" THEN NoUrl ELSE DataUrl
\* supabase.storage.getPublicUrl(fileName).publicUrl
PublicUrl == [scheme |-> "https", id |-> 1]
\* result.url.startsWith('data:image/') (videoUrl.startsWith('data:video/'))
IsDataImage(kind) == kind \in {"dataImage", "dataImageMalformed"}
\* base64Data.match(/^data:([^;]+);base64,(.+)$/) (supabase.ts:25)
MatchesDataUrlPattern(kind) == kind = "dataImage"

StatusEvent(st) == [type |-> "status", status |-> st, url |-> NoUrl, error |-> ""]
ErrorEventOf(msg) == [type |-> "error", status |-> "", url |-> NoUrl, error |-> msg]
\* error.message of a thrown error
ErrorEvent == ErrorEventOf("error.message")
SuccessEvent(url) == [type |-> "success", status |-> "", url |-> url, error |-> ""]

\* sendEvent({ status }) of the streaming handler; the JSON handlers send nothing
\* before their response.
Emit(evs, r, st) == IF r.route = "stream" THEN Append(evs, StatusEvent(st)) ELSE evs

\* sendEvent({ error }); controller.close(); (return NextResponse.json({ error }))
FailWith(msg) ==
    /\ events' = Append(events, ErrorEventOf(msg))
    /\ closed' = closed + 1
    /\ hpc' = "done"

Fail == FailWith(ErrorEvent.error)

\* The validation with the test of the API key left out.
ValidationErrorNoKeyTest(r) == IF ~r.prompt THEN "Prompt is required" ELSE ""

\* The validation of every handler (part_001:51-62, route.ts:18-25,
\* part_003:21-28, part_004:21-28): the error it answers with, "" if none.
ValidationError(r) ==
    IF ~r.prompt THEN "Prompt is required"
    ELSE IF ~r.apiKey THEN "API key not configured"
    ELSE ""

\* uploadImageToStorage returning the public url whatever the upload answered.
uploadImageToStorageNoFallback(base64Data, storageError) == PublicUrl

\* uploadImageToStorage once the upload has answered (supabase.ts:50-62).
uploadImageToStorage(base64Data, storageError) ==
    IF storageError THEN base64Data ELSE PublicUrl

\* uploadVideoToStorage (supabase.ts:66-111): no throw on a url off the pattern.
uploadVideoToStorage(base64Data, matches, storageError) ==
    IF ~matches THEN base64Data
    ELSE IF storageError THEN base64Data ELSE PublicUrl

\* The events after updateConversationTitle threw, were the error not caught at
\* the title update but by the handler's outer catch.
OnTitleErrorUncaught(evs) == Append(evs, ErrorEvent)

\* The events after updateConversationTitle threw (part_001:182-185): caught.
OnTitleError(evs) == evs

\* Where a handler goes once it has its conversation id: the video handler reads
\* no previous images.
AfterConversation(r) ==
    IF r.route = "video" THEN "addUserMessage" ELSE "getConversationImages"

\* request.json() completes; validation (part_001:39-74).
ParseRequest ==
    /\ hpc = "start"
    /\ IF ~req.bodyOk THEN Fail
       ELSE IF ValidationError(req) # "" THEN FailWith(ValidationError(req))
       ELSE /\ events' = Emit(events, req, "starting")
            /\ closed' = closed
            /\ IF ~req.conversationId
               THEN hpc' = "createConversation"
               ELSE hpc' = AfterConversation(req)
    /\ UNCHANGED <<req, isNewConversation, previousImages, referenceImageData,
                   resultKind, imageUrl, uploadOutcome, effects>>

\* createConversation completes (part_001:70-74).
CreateConversation ==
    /\ hpc = "createConversation"
    /\ effects' = effects \cup {"createConversation"}
    /\ \/ Fail /\ UNCHANGED isNewConversation
       \/ /\ isNewConversation' = TRUE
          /\ hpc' = AfterConversation(req)
          /\ UNCHANGED <<events, closed>>
    /\ UNCHANGED <<req, previousImages, referenceImageData, resultKind, imageUrl,
                   uploadOutcome>>

\* The reference image the handler sends, with the explicit selection tried
\* after the edit keyword.
ChooseReferenceKeywordFirst(r, prev) ==
    IF r.uploadedImage THEN [src |-> "uploaded", id |-> 0]
    ELSE IF Len(prev) > 0
    THEN IF r.editKeyword THEN [src |-> "previous", id |-> prev[1]]
         ELSE IF r.referenceImageId # 0
                 /\ \E i \in 1..Len(prev) : prev[i] = r.referenceImageId
         THEN [src |-> "previous", id |-> r.referenceImageId]
         ELSE [src |-> "none", id |-> 0]
    ELSE [src |-> "none", id |-> 0]

\* The reference image the handler sends (part_001:80-94).
NoReference == [src |-> "none", id |-> 0]
ChooseReference(r, prev) ==
    IF r.uploadedImage THEN [src |-> "uploaded", id |-> 0]
    ELSE IF Len(prev) > 0
    THEN IF r.referenceImageId # 0
         THEN IF \E i \in 1..Len(prev) : prev[i] = r.referenceImageId
              THEN [src |-> "previous", id |-> r.referenceImageId]
              ELSE NoReference
         ELSE IF r.editKeyword THEN [src |-> "previous", id |-> prev[1]]
         ELSE NoReference
    ELSE NoReference

\* What getConversationImages can return: created_at descending (supabase.ts:244-253).
PreviousImageLists == {<<>>, <<1>>, <<2, 1>>}

\* getConversationImages completes; the reference image is chosen (part_001:77-97).
GetConversationImages ==
    /\ hpc = "getConversationImages"
    /\ \/ Fail /\ UNCHANGED <<previousImages, referenceImageData>>
       \/ \E prev \in PreviousImageLists :
            /\ isNewConversation => prev = <<>>
            /\ previousImages' = prev
            /\ referenceImageData' = ChooseReference(req, prev)
            /\ hpc' = "addUserMessage"
            /\ UNCHANGED <<events, closed>>
    /\ UNCHANGED <<req, isNewConversation, resultKind, imageUrl, uploadOutcome,
                   effects>>

\* addMessage(user) completes (part_001:97-112).
AddUserMessage ==
    /\ hpc = "addUserMessage"
    /\ effects' = effects \cup {"addMessage"}
    /\ \/ Fail
       \/ /\ events' = Emit(events, req, "generating")
          /\ hpc' = "generateImage"
          /\ UNCHANGED closed
    /\ UNCHANGED <<req, isNewConversation, previousImages, referenceImageData,
                   resultKind, imageUrl, uploadOutcome>>

\* generateImage (generateVideo) completes (part_001:105-120).
GenerateImage ==
    /\ hpc = "generateImage"
    /\ effects' = effects \cup {"generateImage"}
    /\ \/ Fail /\ UNCHANGED <<resultKind, imageUrl>>
       \/ \E kind \in ResultKindsOf(req.route) :
            /\ resultKind' = kind
            /\ imageUrl' = NoUrl
            /\ hpc' = "addAssistantMessage"
            /\ UNCHANGED <<events, closed>>
    /\ UNCHANGED <<req, isNewConversation, previousImages, referenceImageData,
                   uploadOutcome>>

\* addMessage(assistant) completes; the upload starts (part_001:116-134,
\* supabase.ts:24-49; route.ts:73-80 uploads nothing; part_003:77-101 and
\* part_004:54-68 catch what the upload throws).
AddAssistantMessage ==
    /\ hpc = "addAssistantMessage"
    /\ effects' = effects \cup {"addMessage"}
    /\ \/ Fail /\ UNCHANGED <<imageUrl, uploadOutcome>>
       \/ /\ imageUrl' = ResultUrl(resultKind)
          /\ IF req.route = "stream"
             THEN IF IsDataImage(resultKind)
                  THEN IF MatchesDataUrlPattern(resultKind)
                       THEN /\ events' = Append(events, StatusEvent("uploading"))
                            /\ hpc' = "upload"
                            /\ UNCHANGED <<closed, uploadOutcome>>
                       ELSE \* throw new Error('Invalid base64 data URL'): Upload failed
                            /\ events' = events \o <<StatusEvent("uploading"),
                                                     ErrorEventOf("Upload failed")>>
                            /\ closed' = closed + 1
                            /\ hpc' = "done"
                            /\ uploadOutcome' = "invalid"
                  ELSE /\ events' = Append(events, StatusEvent("uploading"))
                       /\ hpc' = "save"
                       /\ UNCHANGED <<closed, uploadOutcome>>
             ELSE /\ hpc' = IF req.route # "generate" /\ IsDataImage(resultKind)
                            THEN "upload" ELSE "save"
                  /\ UNCHANGED <<events, closed, uploadOutcome>>
    /\ UNCHANGED <<req, isNewConversation, previousImages, referenceImageData,
                   resultKind>>

\* The storage upload completes (supabase.ts:43-62, part_001:134-149;
\* part_003:89-111, part_004:66-73).
Upload ==
    /\ hpc = "upload"
    /\ effects' = effects \cup {"upload"}
    /\ IF req.route = "stream"
       THEN \/ \* the upload throws: Upload failed
               /\ FailWith("Upload failed")
               /\ uploadOutcome' = "threw"
               /\ UNCHANGED imageUrl
            \/ \E storageError \in BOOLEAN :
                 /\ imageUrl' = uploadImageToStorage(ResultUrl(resultKind), storageError)
                 /\ uploadOutcome' = IF storageError THEN "storageError" ELSE "uploaded"
                 /\ hpc' = "blurhash"
                 /\ UNCHANGED <<events, closed>>
       ELSE /\ \/ \* the optimiser or the upload throws: the url stays result.url
                  /\ uploadOutcome' = "threw"
                  /\ UNCHANGED imageUrl
               \/ \E storageError \in BOOLEAN :
                    /\ imageUrl' =
                         IF req.route = "video"
                         THEN uploadVideoToStorage(ResultUrl(resultKind),
                                  MatchesDataUrlPattern(resultKind), storageError)
                         ELSE uploadImageToStorage(ResultUrl(resultKind), storageError)
                    /\ uploadOutcome' = IF storageError THEN "storageError" ELSE "uploaded"
            /\ hpc' = IF req.route = "video" \/ uploadOutcome' # "threw"
                      THEN "save" ELSE "blurhash"
            /\ UNCHANGED <<events, closed>>
    /\ UNCHANGED <<req, isNewConversation, previousImages, referenceImageData,
                   resultKind>>

\* generateBlurhashFromBase64 completes or throws (part_001:138-143).
Blurhash ==
    /\ hpc = "blurhash"
    /\ hpc' = "save"
    /\ UNCHANGED <<req, events, closed, isNewConversation, previousImages,
                   referenceImageData, resultKind, imageUrl, uploadOutcome, effects>>

\* The url of the success answer: imageUrl (part_001:170, part_003:130), or
\* result.url (route.ts:95, part_004:95).
AnsweredUrl ==
    IF req.route \in {"stream", "optimized"} THEN imageUrl ELSE ResultUrl(resultKind)

\* saveGeneratedImage completes; the success event (part_001:153-188).
SaveGeneratedImage ==
    /\ hpc = "save"
    /\ effects' = effects \cup {"saveGeneratedImage"}
    /\ \/ Fail
       \/ /\ events' = Append(events, SuccessEvent(AnsweredUrl))
          /\ IF req.route = "stream" /\ isNewConversation
             THEN hpc' = "title" /\ closed' = closed
             ELSE hpc' = "done" /\ closed' = closed + 1
    /\ UNCHANGED <<req, isNewConversation, previousImages, referenceImageData,
                   resultKind, imageUrl, uploadOutcome>>

\* updateConversationTitle completes or throws (part_001:176-188).
UpdateTitle ==
    /\ hpc = "title"
    /\ \/ events' = events
       \/ events' = OnTitleError(events)
    /\ closed' = closed + 1
    /\ hpc' = "done"
    /\ UNCHANGED <<req, isNewConversation, previousImages, referenceImageData,
                   resultKind, imageUrl, uploadOutcome, effects>>

GenIdle ==
    /\ req = [bodyOk |-> FALSE, prompt |-> FALSE, apiKey |-> FALSE,
              conversationId |-> FALSE, uploadedImage |-> FALSE,
              referenceImageId |-> 0, editKeyword |-> FALSE, route |-> "stream"]
    /\ hpc = "idle"
    /\ events = <<>>
    /\ closed = 0
    /\ isNewConversation = FALSE
    /\ previousImages = <<>>
    /\ referenceImageData = NoReference
    /\ resultKind = "none"
    /\ imageUrl = NoUrl
    /\ uploadOutcome = "none"
    /\ effects = {}

\* A request to the handler of route.
RequestsTo(routes) ==
    {r \in [bodyOk : BOOLEAN, prompt : BOOLEAN, apiKey : BOOLEAN,
            conversationId : BOOLEAN, uploadedImage : BOOLEAN,
            referenceImageId : {0, 1, 3}, editKeyword : BOOLEAN, route : routes] :
        r.editKeyword => r.prompt}

HandlerStart(routes) ==
    /\ req \in RequestsTo(routes)
    /\ hpc = "start"
    /\ events = <<>>
    /\ closed = 0
    /\ isNewConversation = FALSE
    /\ previousImages = <<>>
    /\ referenceImageData = NoReference
    /\ resultKind = "none"
    /\ imageUrl = NoUrl
    /\ uploadOutcome = "none"
    /\ effects = {}

GenInit == HandlerStart({"stream"})

GenNext ==
    \/ ParseRequest /\ UNCHANGED notGenVars
    \/ CreateConversation /\ UNCHANGED notGenVars
    \/ GetConversationImages /\ UNCHANGED notGenVars
    \/ AddUserMessage /\ UNCHANGED notGenVars
    \/ GenerateImage /\ UNCHANGED notGenVars
    \/ AddAssistantMessage /\ UNCHANGED notGenVars
    \/ Upload /\ UNCHANGED notGenVars
    \/ Blurhash /\ UNCHANGED notGenVars
    \/ SaveGeneratedImage /\ UNCHANGED notGenVars
    \/ UpdateTitle /\ UNCHANGED notGenVars

\* ------------------------------------------------------------------ useElements
\* elementUtils.ts:46, 67: the literal 5.
MaxPhotosPerElement == 5

\* uuidv4(): the next unused id.
Uuid(n) == n + 1

\* What addPhotoToElement and addPhotosToElement return for null.
NullElement == [id |-> 0, photos |-> <<>>]

createNewElement(uuid) == [id |-> uuid, photos |-> <<>>]

addPhotoToElement(element, photoId) ==
    IF Len(element.photos) >= MaxPhotosPerElement THEN NullElement
    ELSE [element EXCEPT !.photos = Append(@, photoId)]

\* photoUrls become photos with the ids first, first + 1, ...
addPhotosToElement(element, first, count) ==
    LET remainingSlots == MaxPhotosPerElement - Len(element.photos)
    IN IF count > remainingSlots THEN NullElement
       ELSE [element EXCEPT !.photos = @ \o [i \in 1..count |-> first + i - 1]]

removePhotosFromElement(element, photoIds) ==
    [element EXCEPT !.photos = SelectSeq(@, LAMBDA p : p \notin photoIds)]

removePhotoFromElement(element, photoId) ==
    removePhotosFromElement(element, {photoId})

\* prev.map(el => el.id === elementId ? (f(el) || el) : el)
MapElement(list, elementId, updated) ==
    [i \in 1..Len(list) |->
        IF list[i].id = elementId /\ updated # NullElement THEN updated ELSE list[i]]

ElementIds == {elements[i].id : i \in 1..Len(elements)}
ElementOf(elementId) == elements[CHOOSE i \in 1..Len(elements) : elements[i].id = elementId]
NoAdd == [op |-> "none", wasNull |-> FALSE, before |-> 0, asked |-> 0]

createElement ==
    /\ Len(elements) < MaxElements
    /\ nextUuid < MaxUuids
    /\ elements' = Append(elements, createNewElement(Uuid(nextUuid)))
    /\ nextUuid' = nextUuid + 1
    /\ lastAdd' = NoAdd

addPhoto(elementId) ==
    LET el == ElementOf(elementId)
        updated == addPhotoToElement(el, Uuid(nextUuid))
    IN /\ nextUuid < MaxUuids
       /\ elements' = MapElement(elements, elementId, updated)
       /\ nextUuid' = IF updated = NullElement THEN nextUuid ELSE nextUuid + 1
       /\ lastAdd' = [op |-> "addPhoto", wasNull |-> updated = NullElement,
                      before |-> Len(el.photos), asked |-> 1]

addPhotos(elementId, count) ==
    LET el == ElementOf(elementId)
        updated == addPhotosToElement(el, Uuid(nextUuid), count)
    IN /\ nextUuid + count <= MaxUuids
       /\ elements' = MapElement(elements, elementId, updated)
       /\ nextUuid' = IF updated = NullElement THEN nextUuid ELSE nextUuid + count
       /\ lastAdd' = [op |-> "addPhotos", wasNull |-> updated = NullElement,
                      before |-> Len(el.photos), asked |-> count]

removePhoto(elementId, photoId) ==
    /\ elements' = MapElement(elements, elementId,
                              removePhotoFromElement(ElementOf(elementId), photoId))
    /\ lastAdd' = NoAdd
    /\ UNCHANGED nextUuid

removePhotos(elementId, photoIds) ==
    /\ elements' = MapElement(elements, elementId,
                              removePhotosFromElement(ElementOf(elementId), photoIds))
    /\ lastAdd' = NoAdd
    /\ UNCHANGED nextUuid

\* The arrays a caller may hand to importElements as JSON: one element whose
\* photos number count; nothing but Array.isArray is tested (useElements.ts:229-241).
ImportedElement(count) == [id |-> ImportedId, photos |-> [i \in 1..count |-> ImportedId + i]]
ImportedArrays == {<<>>} \cup {<<ImportedElement(n)>> : n \in ImportedPhotoCounts}

importElements(imported) ==
    /\ elements' = imported
    /\ lastAdd' = NoAdd
    /\ UNCHANGED nextUuid

\* The list useElements starts from: what localStorage holds.
StoredLists == {<<>>, <<[id |-> 1, photos |-> <<2, 3, 4, 5>>]>>}
LargestId(list) ==
    IF list = <<>> THEN 0
    ELSE LET el == list[1] IN IF el.photos = <<>> THEN el.id ELSE el.photos[Len(el.photos)]

ElemIdle ==
    /\ elements = <<>>
    /\ nextUuid = 0
    /\ lastAdd = NoAdd

ElemInit ==
    /\ elements \in StoredLists
    /\ nextUuid = LargestId(elements)
    /\ lastAdd = NoAdd

ElemNext ==
    \/ createElement /\ UNCHANGED notElemVars
    \/ \E id \in ElementIds : addPhoto(id) /\ UNCHANGED notElemVars
    \/ \E id \in ElementIds, n \in 0..MaxBatch :
          addPhotos(id, n) /\ UNCHANGED notElemVars
    \/ \E id \in ElementIds :
          \E p \in {ElementOf(id).photos[i] : i \in 1..Len(ElementOf(id).photos)} :
              removePhoto(id, p) /\ UNCHANGED notElemVars
    \/ \E id \in ElementIds :
          \E ps \in SUBSET {ElementOf(id).photos[i] : i \in 1..Len(ElementOf(id).photos)} :
              removePhotos(id, ps) /\ UNCHANGED notElemVars
    \/ \E imported \in ImportedArrays :
          importElements(imported) /\ UNCHANGED notElemVars

\* ------------------------------------------------------------------ elements tables
\* gen_random_uuid(): the next unused id.
RowIds == 1..MaxRows

\* element_photos.element_id REFERENCES elements(id): an insert is refused unless
\* the element exists (migration:18).
ForeignKeyHolds(table, elementId) == elementId \in table

\* DELETE FROM elements WHERE id = ..., were the photos left alone.
DeleteNoCascade(photos, id) == photos

\* ON DELETE CASCADE (migration:18): the photos that remain when the element
\* id is deleted.
DeleteCascade(photos, id) == {p \in photos : p.element_id # id}

RECURSIVE SortByPosition(_)
SortByPosition(rows) ==
    IF rows = {} THEN <<>>
    ELSE LET first == CHOOSE p \in rows :
                 \A q \in rows : p.position < q.position
                                 \/ (p.position = q.position /\ p.id <= q.id)
         IN <<first>> \o SortByPosition(rows \ {first})

\* getElementPhotos (supabase.ts:492-501): the element's photos by position.
getElementPhotos(elementId) ==
    SortByPosition({p \in elementPhotos : p.element_id = elementId})

\* createElement (supabase.ts:358-375): the insert succeeds or fails.
createElementRow ==
    /\ nextRowId < MaxRows
    /\ \/ /\ elementsTable' = elementsTable \cup {nextRowId + 1}
          /\ nextRowId' = nextRowId + 1
       \/ UNCHANGED <<elementsTable, nextRowId>>
    /\ lastCascade' = 0
    /\ UNCHANGED <<elementPhotos, photoCalls, deletedElements>>

\* addPhotoToElement up to its insert (supabase.ts:455-471): the position given,
\* or the highest position of the element plus one, or 0.
addPhotoToElementSelect(elementId, given) ==
    LET photos == getElementPhotos(elementId)
        finalPosition == IF given >= 0 THEN given
                         ELSE IF Len(photos) > 0 THEN photos[Len(photos)].position + 1
                         ELSE 0
    IN /\ BagCardinality(photoCalls) < MaxPhotoCalls
       /\ finalPosition <= MaxPosition
       /\ photoCalls' = photoCalls (+) SetToBag({[element_id |-> elementId,
                                                 position |-> finalPosition]})
       /\ lastCascade' = 0
       /\ UNCHANGED <<elementsTable, elementPhotos, nextRowId, deletedElements>>

\* The insert of addPhotoToElement (supabase.ts:473-485).
addPhotoToElementInsert(call) ==
    /\ photoCalls' = photoCalls (-) SetToBag({call})
    /\ IF ForeignKeyHolds(elementsTable, call.element_id) /\ nextRowId < MaxRows
       THEN \/ /\ elementPhotos' = elementPhotos \cup
                      {[id |-> nextRowId + 1, element_id |-> call.element_id,
                        position |-> call.position]}
               /\ nextRowId' = nextRowId + 1
            \/ UNCHANGED <<elementPhotos, nextRowId>>
       ELSE UNCHANGED <<elementPhotos, nextRowId>>
    /\ lastCascade' = 0
    /\ UNCHANGED <<elementsTable, deletedElements>>

\* removePhotoFromElement (supabase.ts:507-514).
removePhotoRow(photoId) ==
    /\ elementPhotos' = {p \in elementPhotos : p.id # photoId}
    /\ lastCascade' = 0
    /\ UNCHANGED <<elementsTable, nextRowId, photoCalls, deletedElements>>

\* deleteElement (supabase.ts:439-446).
deleteElement(id) ==
    /\ id \in elementsTable
    /\ elementsTable' = elementsTable \ {id}
    /\ elementPhotos' = DeleteCascade(elementPhotos, id)
    /\ deletedElements' = deletedElements \cup {id}
    /\ lastCascade' = Cardinality(elementPhotos) - Cardinality(elementPhotos')
    /\ UNCHANGED <<nextRowId, photoCalls>>

DbInit ==
    /\ elementsTable = {}
    /\ elementPhotos = {}
    /\ nextRowId = 0
    /\ photoCalls = EmptyBag
    /\ deletedElements = {}
    /\ lastCascade = 0

DbNext ==
    \/ createElementRow /\ UNCHANGED notDbVars
    \/ \E id \in elementsTable \cup deletedElements, given \in {-1, 0} :
          addPhotoToElementSelect(id, given) /\ UNCHANGED notDbVars
    \/ \E call \in BagToSet(photoCalls) :
          addPhotoToElementInsert(call) /\ UNCHANGED notDbVars
    \/ \E p \in elementPhotos : removePhotoRow(p.id) /\ UNCHANGED notDbVars
    \/ \E id \in RowIds : deleteElement(id) /\ UNCHANGED notDbVars

\* ------------------------------------------------------------------ Home (page)
Reverse(s) == [i \in 1..Len(s) |-> s[Len(s) + 1 - i]]

\* JavaScript String.prototype.includes, on texts as sequences of words.
Includes(text, pattern) ==
    \E i \in 0..(Len(text) - Len(pattern)) :
        SubSeq(text, i + 1, i + Len(pattern)) = pattern

\* The messages an error event of /api/generate can carry: error.message is any
\* text (part_001:59, 146, 191).
ErrorTexts == {<<"API", "key", "not", "configured">>, <<"Server", "error", "500">>}

\* What the server can answer to a generation request that was sent with the
\* conversation id sentConv: created tells whether it made a new conversation
\* (part_001:68-74, part_004:31-35).
Responses(sentConv) ==
    {[kind |-> "success", error |-> <<>>, created |-> sentConv = 0]}
        \cup {[kind |-> "error", error |-> text, created |-> c] :
                 text \in ErrorTexts,
                 c \in IF sentConv = 0 THEN BOOLEAN ELSE {FALSE}}
        \cup {[kind |-> k, error |-> <<>>, created |-> FALSE] : k \in {"http", "network"}}

NoResult == [rejected |-> FALSE, message |-> <<>>, conversationId |-> 0, image |-> FALSE]
Rejection(text) == [NoResult EXCEPT !.rejected = TRUE, !.message = text]

\* generateSingleImage (part_000:118-156) on the answer resp of the conversation
\* conv: what its promise settles with.
generateSingleImage(resp, conv) ==
    IF resp.kind = "network" THEN Rejection(<<"Failed", "to", "fetch">>)
    ELSE IF resp.kind = "http" THEN Rejection(<<"Server", "error", "status">>)
    ELSE IF resp.kind = "error"
    THEN \* throw new Error(data.error), caught by the catch around JSON.parse
         IF Includes(resp.error, <<"Server", "error">>)
         THEN Rejection(resp.error)
         ELSE NoResult
    ELSE [NoResult EXCEPT !.conversationId = conv, !.image = TRUE]

\* The fetch of handleVideoGenerate (part_000:231-289): what it ends with.
generateVideoRequest(resp, conv) ==
    IF resp.kind = "network" THEN Rejection(<<"Failed", "to", "fetch">>)
    ELSE IF resp.kind \in {"http", "error"}
    THEN Rejection(IF resp.error = <<>> THEN <<"Server", "error", "status">>
                   ELSE resp.error)
    ELSE [NoResult EXCEPT !.conversationId = conv, !.image = TRUE]

\* finally { setActiveGenerations(prev => prev - 1) }, were it done only after
\* a request that did not throw.
AfterSettleUnlessThrown(active, res) == IF res.rejected THEN active ELSE active - 1

\* finally { setActiveGenerations(prev => prev - 1) } (part_000:198-200, 296-297)
AfterSettle(active, res) == active - 1

\* `img-${Date.now()}-${i}` / `vid-${Date.now()}`
SlotId(type, t, i) == [type |-> type, t |-> t, i |-> i]
\* The ids of the slots of batch b (newSlots / slotId of its closure).
SlotIdsOf(b) ==
    {SlotId(IF batches[b].kind = "image" THEN "img" ELSE "vid", batches[b].t, i) :
        i \in 0..(batches[b].count - 1)}

\* prev.map(s => s.id === slotId ? { ...s, status } : s)
SetStatus(slots, slotId, status) ==
    [i \in 1..Len(slots) |->
        IF slots[i].id = slotId THEN [slots[i] EXCEPT !.status = status] ELSE slots[i]]

\* The number of generation requests sent so far.
RECURSIVE SumCounts(_)
SumCounts(bs) == IF bs = <<>> THEN 0 ELSE Head(bs).count + SumCounts(Tail(bs))
Started == SumCounts(batches)

NoSettle == [kind |-> "none", response |-> "none", error |-> <<>>,
             rejected |-> FALSE, message |-> <<>>]

\* handleImageGenerate up to its Promise.all (part_000:159-203): the slots, the
\* counter, and the imageCount requests, all sent with the conversation id the
\* page has now.
handleImageGenerate(imageCount) ==
    LET b == Len(batches) + 1
        newSlots == [i \in 1..imageCount |->
                        [id |-> SlotId("img", pageNow, i - 1), type |-> "image",
                         status |-> "generating", batch |-> b, rid |-> 10 * b + i]]
    IN /\ Len(batches) < MaxBatches
       /\ Started + imageCount <= MaxRequests
       /\ generationSlots' = newSlots \o generationSlots
       /\ activeGenerations' = activeGenerations + imageCount
       /\ batches' = Append(batches, [kind |-> "image", t |-> pageNow,
                                      count |-> imageCount,
                                      currentConvId |-> conversationId])
       /\ requests' = requests \cup
             {[rid |-> 10 * b + i, kind |-> "image", batch |-> b,
               slot |-> SlotId("img", pageNow, i - 1),
               sentConv |-> conversationId] : i \in 1..imageCount}
       /\ lastSettle' = NoSettle
       /\ UNCHANGED <<conversationId, generatedContent, timers, nextConv, createdBy,
                      loads, loadsDone, pageNow>>

\* handleVideoGenerate up to its fetch (part_000:218-248).
handleVideoGenerate ==
    LET b == Len(batches) + 1
        newSlot == [id |-> SlotId("vid", pageNow, 0), type |-> "video",
                    status |-> "generating", batch |-> b, rid |-> 10 * b + 1]
    IN /\ Len(batches) < MaxBatches
       /\ Started + 1 <= MaxRequests
       /\ generationSlots' = <<newSlot>> \o generationSlots
       /\ activeGenerations' = activeGenerations + 1
       /\ batches' = Append(batches, [kind |-> "video", t |-> pageNow, count |-> 1,
                                      currentConvId |-> conversationId])
       /\ requests' = requests \cup
             {[rid |-> 10 * b + 1, kind |-> "video", batch |-> b,
               slot |-> SlotId("vid", pageNow, 0), sentConv |-> conversationId]}
       /\ lastSettle' = NoSettle
       /\ UNCHANGED <<conversationId, generatedContent, timers, nextConv, createdBy,
                      loads, loadsDone, pageNow>>

\* The request r is answered with resp and its continuation runs: for an image
\* part_000:177-200 and, after the last request of the batch, 203-208; for a
\* video part_000:250-303.
Settle(r, resp) ==
    LET b == r.batch
        conv == IF resp.created THEN nextConv + 1 ELSE r.sentConv
        res == IF r.kind = "image" THEN generateSingleImage(resp, conv)
               ELSE generateVideoRequest(resp, conv)
        adopt == ~res.rejected /\ res.conversationId # 0
                     /\ batches[b].currentConvId = 0
        item == [id |-> r.rid, type |-> r.kind, created_at |-> 0, loaded |-> FALSE,
                 conv |-> res.conversationId]
        rest == requests \ {r}
    IN /\ resp.created => nextConv < MaxConvs
       /\ requests' = rest
       /\ nextConv' = IF resp.created THEN nextConv + 1 ELSE nextConv
       /\ createdBy' = IF resp.created
                       THEN createdBy \cup {[batch |-> b, conv |-> nextConv + 1]}
                       ELSE createdBy
       /\ batches' = IF adopt /\ r.kind = "image"
                     THEN [batches EXCEPT ![b].currentConvId = res.conversationId]
                     ELSE batches
       /\ conversationId' = IF adopt THEN res.conversationId ELSE conversationId
       /\ generationSlots' =
             IF res.rejected THEN SetStatus(generationSlots, r.slot, "error")
             ELSE IF res.image THEN SetStatus(generationSlots, r.slot, "complete")
             ELSE generationSlots
       /\ generatedContent' =
             IF ~res.rejected /\ res.image THEN <<item>> \o generatedContent
             ELSE generatedContent
       /\ activeGenerations' = AfterSettle(activeGenerations, res)
       /\ timers' = IF \E q \in rest : q.batch = b THEN timers ELSE timers \cup {b}
       /\ lastSettle' = [kind |-> r.kind, response |-> resp.kind, error |-> resp.error,
                         rejected |-> res.rejected, message |-> res.message]
       /\ UNCHANGED <<loads, loadsDone, pageNow>>

\* The setTimeout callback of batch b (part_000:206-208, 300-302).
RemoveSlots(b) ==
    /\ b \in timers
    /\ timers' = timers \ {b}
    /\ generationSlots' = SelectSeq(generationSlots, LAMBDA s : s.id \notin SlotIdsOf(b))
    /\ lastSettle' = NoSettle
    /\ UNCHANGED <<conversationId, generatedContent, activeGenerations, batches,
                   requests, nextConv, createdBy, loads, loadsDone, pageNow>>

\* The rows a conversation can hold (generated_images, generated_videos): none,
\* a video and a later image, or an image, a later video and a still later image.
StoredItems ==
    {[id |-> 1, type |-> "image", created_at |-> 1],
     [id |-> 2, type |-> "video", created_at |-> 2],
     [id |-> 3, type |-> "image", created_at |-> 3]}
StoredConversations == {{}, {x \in StoredItems : x.id # 1}, StoredItems}

\* .order('created_at', { ascending: true })
RECURSIVE OrderByCreatedAt(_)
OrderByCreatedAt(rows) ==
    IF rows = {} THEN <<>>
    ELSE LET first == CHOOSE x \in rows : \A y \in rows : x.created_at <= y.created_at
         IN <<first>> \o OrderByCreatedAt(rows \ {first})

\* getConversation (supabase.ts:141-181): the pseudo-messages, those of the
\* images and then those of the videos.
getConversation(rows) ==
    OrderByCreatedAt({x \in rows : x.type = "image"})
        \o OrderByCreatedAt({x \in rows : x.type = "video"})

\* loadConversation up to its fetch (part_000:62-64).
loadConversation(id) ==
    /\ loadsDone + Cardinality(loads) < MaxLoads
    /\ id \notin loads
    /\ loads' = loads \cup {id}
    /\ lastSettle' = NoSettle
    /\ UNCHANGED <<conversationId, generatedContent, generationSlots,
                   activeGenerations, batches, requests, timers, nextConv, createdBy,
                   loadsDone, pageNow>>

\* The fetch of loadConversation(id) is answered (part_000:65-94).
loadConversationDone(id, rows, ok) ==
    LET messages == getConversation(rows)
        content == [i \in 1..Len(messages) |->
                       [id |-> messages[i].id, type |-> messages[i].type,
                        created_at |-> messages[i].created_at, loaded |-> TRUE,
                        conv |-> id]]
    IN /\ id \in loads
       /\ loads' = loads \ {id}
       /\ loadsDone' = loadsDone + 1
       /\ IF ok
          THEN /\ conversationId' = id
               /\ generatedContent' = Reverse(content)
          ELSE UNCHANGED <<conversationId, generatedContent>>
       /\ lastSettle' = NoSettle
       /\ UNCHANGED <<generationSlots, activeGenerations, batches, requests, timers,
                      nextConv, createdBy, pageNow>>

\* handleNewProject (part_000:98-101)
handleNewProject ==
    /\ conversationId # 0 \/ generatedContent # <<>>
    /\ conversationId' = 0
    /\ generatedContent' = <<>>
    /\ lastSettle' = NoSettle
    /\ UNCHANGED <<generationSlots, activeGenerations, batches, requests, timers,
                   nextConv, createdBy, loads, loadsDone, pageNow>>

\* Date.now() moves on by a millisecond.
PageTick ==
    /\ pageNow < MaxPageTicks
    /\ pageNow' = pageNow + 1
    /\ lastSettle' = NoSettle
    /\ UNCHANGED <<conversationId, generatedContent, generationSlots,
                   activeGenerations, batches, requests, timers, nextConv, createdBy,
                   loads, loadsDone>>

\* ConversationView (CinemaStudio.tsx:204-205): the items in the order shown.
orderedContent == Reverse(generatedContent)

\* Home as mounted (part_000:37-42); the server holds one conversation.
PageInit ==
    /\ conversationId = 0
    /\ generatedContent = <<>>
    /\ generationSlots = <<>>
    /\ activeGenerations = 0
    /\ batches = <<>>
    /\ requests = {}
    /\ timers = {}
    /\ nextConv = 1
    /\ createdBy = {}
    /\ loads = {}
    /\ loadsDone = 0
    /\ pageNow = 0
    /\ lastSettle = NoSettle

PageNext ==
    \/ \E n \in 1..MaxImageCount : handleImageGenerate(n) /\ UNCHANGED notPageVars
    \/ handleVideoGenerate /\ UNCHANGED notPageVars
    \/ \E r \in requests : \E resp \in Responses(r.sentConv) :
          Settle(r, resp) /\ UNCHANGED notPageVars
    \/ \E b \in timers : RemoveSlots(b) /\ UNCHANGED notPageVars
    \/ \E id \in 1..nextConv : loadConversation(id) /\ UNCHANGED notPageVars
    \/ \E id \in loads : \E rows \in StoredConversations : \E ok \in BOOLEAN :
          loadConversationDone(id, rows, ok) /\ UNCHANGED notPageVars
    \/ handleNewProject /\ UNCHANGED notPageVars
    \/ PageTick /\ UNCHANGED notPageVars

vars == <<cacheVars, genVars, elemVars, dbVars, pageVars>>

Init == CacheInit /\ GenIdle /\ ElemIdle /\ DbInit /\ PageInit
Next == CacheNext
Spec == Init /\ [][Next]_vars
ConcSpec == Init /\ [][ConcNext]_vars
GenStart == CacheInit /\ GenInit /\ ElemIdle /\ DbInit /\ PageInit
GenSpec == GenStart /\ [][GenNext]_vars
RouteStart == CacheInit /\ HandlerStart(Routes) /\ ElemIdle /\ DbInit /\ PageInit
RouteSpec == RouteStart /\ [][GenNext]_vars
ElemStart == CacheInit /\ GenIdle /\ ElemInit /\ DbInit /\ PageInit
ElemSpec == ElemStart /\ [][ElemNext]_vars
DbStart == CacheInit /\ GenIdle /\ ElemIdle /\ DbInit /\ PageInit
DbSpec == DbStart /\ [][DbNext]_vars
PageStart == CacheInit /\ GenIdle /\ ElemIdle /\ DbInit /\ PageInit
PageSpec == PageStart /\ [][PageNext]_vars
PreloadSpec == Init /\ [][PreloadNext]_vars

\* ================================================================== claims
\* A record of the table that holds the object URL b.
RecordsWithBlob(b) == {r \in db : r.blobUrl = b}

\* C1: every string getCachedImageUrl resolves to is usable when it is returned:
\* it is the original url or an object URL of the current page session that has
\* not been revoked.
C1_ReturnedUrlUsable ==
    last.via # "none" => (last.value = last.url \/ last.value \in live)

\* C2: the memory tier never holds more than MAX_MEMORY_CACHE entries.
C2_MemoryCapacity == Len(memoryCache) <= MAX_MEMORY_CACHE

\* An insertion of a new url into a full memory tier has just happened.
C2_Witness ==
    /\ lastInsert.wasFull /\ lastInsert.wasNew
    /\ Len(memoryCache) = MAX_MEMORY_CACHE

\* C3: inserting a url that is not cached into a full memory tier removes exactly
\* one entry, the one inserted earliest among those present; a hit changes
\* neither the entries nor their order.
C3_EvictionByInsertionOrder ==
    /\ [](lastInsert.wasFull /\ lastInsert.wasNew
            => lastInsert.removed = {lastInsert.oldest})
    /\ [][last'.via = "memory" => memoryCache' = memoryCache /\ insOrder' = insOrder]_vars

\* The entry inserted earliest has just been evicted from a tier of two or more.
C3_Witness ==
    /\ lastInsert.wasFull /\ lastInsert.wasNew
    /\ lastInsert.removed = {lastInsert.oldest}
    /\ Len(memoryCache) > 1
    /\ lastInsert.oldest \notin MapKeys(memoryCache)

\* C4 as stated: neither tier serves an entry stored MAX_CACHE_AGE or longer
\* before the lookup.
C4_NoExpiredEntryServed ==
    last.via \in {"memory", "idb"} =>
        \A r \in RecordsWithBlob(last.value) : now - r.timestamp < MAX_CACHE_AGE

\* C4 amended: the IndexedDB tier never serves a record stored MAX_CACHE_AGE or
\* longer before the lookup.
C4_NoExpiredRecordServed ==
    last.via = "idb" =>
        /\ RecordsWithBlob(last.value) # {}
        /\ \A r \in RecordsWithBlob(last.value) : now - r.timestamp < MAX_CACHE_AGE

\* A lookup has found an expired record and is on its way to the network.
C4_Witness ==
    \E call \in Pending :
        /\ call.pc = "idbDelete"
        /\ RecordsOf(db, call.url) # {}
        /\ \A r \in RecordsOf(db, call.url) : now - r.timestamp >= MAX_CACHE_AGE

\* C5: a lookup that misses the memory tier and finds an unexpired record issues
\* no fetch, returns the record's blobUrl and leaves the memory tier mapping the
\* url to that blobUrl.
C5_Promotion ==
    last.via = "idb" =>
        /\ ~last.fetched
        /\ \E r \in RecordsOf(db, last.url) : r.blobUrl = last.value
        /\ MapHas(memoryCache, last.url)
        /\ MapGet(memoryCache, last.url) = last.value

\* A record has just been promoted into the memory tier.
C5_Witness ==
    /\ last.via = "idb"
    /\ lastInsert.url = last.url
    /\ MapGet(memoryCache, last.url) = last.value

\* C6 as stated: a call that starts while its url has an unexpired record (a
\* call that starts while the url is in the memory tier never leaves the first
\* step) resolves without a network fetch.
C6_NoRedundantDownload == last.fetched => ~last.cachedAtStart

\* The first record of the call's url exists and is unexpired.
FirstRecordFresh(call) ==
    /\ RecordsOf(db, call.url) # {}
    /\ now - FirstRecord(db, call.url).timestamp < MAX_CACHE_AGE

\* C6 amended: a call whose IndexedDB read succeeds and finds the first record of
\* its url unexpired resolves in that step, from the record and without a fetch.
C6_NoDownloadWhenReadFindsRecord ==
    [][\A call \in Pending :
          (/\ call.pc = "idbRead"
           /\ FirstRecordFresh(call)
           /\ CopiesIn(call, calls') < CopiesIn(call, calls)
           /\ lastFault' = "none"
           /\ calls' # EmptyBag \/ last'.via # "none")
          => /\ last'.via = "idb"
             /\ last'.url = call.url
             /\ ~last'.fetched]_vars

\* A call that started while its url had an unexpired record was served from it.
C6_Witness ==
    /\ last.via = "idb"
    /\ last.cachedAtStart
    /\ ~last.fetched

\* C7: getCachedImageUrl never rejects; after a failed fetch it resolves to the
\* original url and neither tier has gained an entry; an IndexedDB error leaves
\* the call running or resolved.
C7_BestEffortFallback ==
    /\ [](last.via # "rejected")
    /\ [](last.via = "fallback" => last.value = last.url /\ lastInsert = NoInsert)
    /\ [][last'.via = "fallback" => memoryCache' = memoryCache /\ db' = db]_vars
    /\ [](lastFault = "write" => last.via = "network" /\ startsWith(last.value, "blob"))
    /\ [][\A call \in Pending :
             (lastFault' \in {"read", "delete"}
                 /\ CopiesIn(call, calls') < CopiesIn(call, calls))
             => [call EXCEPT !.pc = "fetch"] \in BagToSet(calls')]_vars

\* A fetch has just failed and the call resolved to its own url.
C7_Witness ==
    /\ last.via = "fallback"
    /\ last.value = last.url
    /\ ~MapHas(memoryCache, last.url)
    /\ RecordsOf(db, last.url) = {}

\* C8: a data: url is returned unchanged without a fetch and changes nothing;
\* it never enters the memory tier, the table, the pending calls or the preload
\* sets.
C8_DataUrlsBypass ==
    /\ [](DataUrl \notin KnownUrls \ {last.url})
    /\ [](last.url = DataUrl => last.via = "data" /\ last.value = DataUrl /\ ~last.fetched)
    /\ [][last'.via = "data" =>
            UNCHANGED <<memoryCache, insOrder, live, nextBlob, db, nextId, calls,
                        preloadingUrls, preloadedUrls, scheduled>>]_vars

\* getCachedImageUrl has just returned a data: url while the cache is in use.
C8_Witness ==
    /\ last.via = "data"
    /\ last.value = DataUrl
    /\ memoryCache # <<>>
    /\ preloadedUrls # {}

\* C9 as stated: the url of every success event is a storage or remote url, never
\* a data: url, and a run whose upload could not be done ends with an error event.
C9_OnlyUrlsStreamed ==
    /\ \A i \in 1..Len(events) :
          events[i].type = "success" => ~startsWith(events[i].url, "data")
    /\ (hpc = "done" /\ uploadOutcome \in {"storageError", "threw", "invalid"})
          => events[Len(events)].type = "error"

IsTerminal(e) == e.type \in {"error", "success"}

\* C10: a stream holds at most one terminal event, nothing follows it, the stream
\* is closed once and exactly when the run is over, a finished run ends with its
\* terminal event, and a success event follows starting, generating, uploading.
C10_OneTerminalEventLast ==
    /\ Cardinality({i \in 1..Len(events) : IsTerminal(events[i])}) <= 1
    /\ \A i \in 1..Len(events) : IsTerminal(events[i]) => i = Len(events)
    /\ closed = (IF hpc = "done" THEN 1 ELSE 0)
    /\ hpc = "done" => Len(events) > 0 /\ IsTerminal(events[Len(events)])
    /\ \A i \in 1..Len(events) :
          events[i].type = "success" =>
              SubSeq(events, 1, i - 1) = <<StatusEvent("starting"),
                                           StatusEvent("generating"),
                                           StatusEvent("uploading")>>

\* A run for a new conversation has ended with a success event, after the title
\* update.
C10_Witness ==
    /\ hpc = "done"
    /\ isNewConversation
    /\ closed = 1
    /\ events[Len(events)].type = "success"

\* C11: a request whose body was read and that has no prompt, or that arrives
\* when LAOZHANG_API_KEY is not set, makes none of the calls createConversation,
\* addMessage, generateImage, upload, saveGeneratedImage at any point of the run,
\* and the run ends with the validation error as its only answer.
C11_ValidationNoSideEffects ==
    (req.bodyOk /\ (~req.prompt \/ ~req.apiKey)) =>
        /\ effects = {}
        /\ hpc \in {"start", "done"}
        /\ hpc = "done" =>
              /\ closed = 1
              /\ events = <<ErrorEventOf(IF ~req.prompt THEN "Prompt is required"
                                         ELSE "API key not configured")>>

\* The video handler has rejected a request that has a prompt and no API key.
C11_Witness ==
    /\ hpc = "done"
    /\ req.route = "video"
    /\ req.bodyOk /\ req.prompt /\ ~req.apiKey
    /\ events = <<ErrorEventOf("API key not configured")>>
    /\ effects = {}

\* The image handler has chosen its reference image.
ReferenceChosen ==
    /\ req.route # "video"
    /\ hpc = "addUserMessage" \/ "addMessage" \in effects

\* C12 as stated: uploaded image first; else, with previous images, the image
\* named by referenceImageId; else, with an edit keyword, the most recent
\* previous image; else none.
C12_ReferencePriority ==
    ReferenceChosen =>
        referenceImageData =
            IF req.uploadedImage THEN [src |-> "uploaded", id |-> 0]
            ELSE IF previousImages # <<>> /\ req.referenceImageId # 0
            THEN [src |-> "previous", id |-> req.referenceImageId]
            ELSE IF previousImages # <<>> /\ req.editKeyword
            THEN [src |-> "previous", id |-> previousImages[1]]
            ELSE NoReference

\* C12 amended: as stated, except that a referenceImageId that names none of the
\* conversation's images sends no reference image, edit keyword or not; the most
\* recent previous image is the one no other is newer than.
C12_ReferencePriorityInConversation ==
    ReferenceChosen =>
        LET ids == {previousImages[i] : i \in 1..Len(previousImages)}
        IN IF req.uploadedImage THEN referenceImageData.src = "uploaded"
           ELSE IF ids # {} /\ req.referenceImageId # 0
           THEN IF req.referenceImageId \in ids
                THEN referenceImageData = [src |-> "previous", id |-> req.referenceImageId]
                ELSE referenceImageData = NoReference
           ELSE IF ids # {} /\ req.editKeyword
           THEN /\ referenceImageData.src = "previous"
                /\ referenceImageData.id \in ids
                /\ \A i \in ids : i <= referenceImageData.id
           ELSE referenceImageData = NoReference

\* An edit request names an image that is not in the conversation: no reference.
C12_Witness ==
    /\ ReferenceChosen
    /\ hpc = "done"
    /\ ~req.uploadedImage /\ req.referenceImageId = 3 /\ req.editKeyword
    /\ previousImages = <<2, 1>>
    /\ referenceImageData = NoReference

\* C13 as stated: no element of the list holds more than 5 photos, and addPhoto /
\* addPhotos return null exactly when the addition would bring the element
\* above 5.
C13_AtMostFivePhotos ==
    /\ \A i \in 1..Len(elements) : Len(elements[i].photos) <= MaxPhotosPerElement
    /\ lastAdd.op # "none" =>
          (lastAdd.wasNull <=> lastAdd.before + lastAdd.asked > MaxPhotosPerElement)

\* C14: every element_photos row references an existing elements row, and a
\* deleted element has no photos (getElementPhotos of it is empty), then and ever
\* after, also when an addPhotoToElement for it was between select and insert.
C14_DeleteCascades ==
    /\ \A p \in elementPhotos : p.element_id \in elementsTable
    /\ \A id \in deletedElements : getElementPhotos(id) = <<>>

\* deleteElement has just deleted an element together with its photo while
\* another element keeps its photo, and an addPhotoToElement for the deleted
\* element has yet to insert.
C14_Witness ==
    /\ lastCascade > 0
    /\ elementPhotos # {}
    /\ \E call \in BagToSet(photoCalls) : call.element_id \in deletedElements

\* C15 as stated: the loaded items are shown in non-decreasing created_at order,
\* and no loaded item is shown after an item generated on the page.
C15_OldestFirst ==
    \A i \in 1..Len(orderedContent) : \A j \in 1..Len(orderedContent) :
        i < j =>
            /\ (orderedContent[i].loaded /\ orderedContent[j].loaded)
                  => orderedContent[i].created_at <= orderedContent[j].created_at
            /\ ~(~orderedContent[i].loaded /\ orderedContent[j].loaded)

\* C16 as stated: the requests of one handleImageGenerate call make at most one
\* conversation, and the images the call puts on the page are all of one
\* conversation.
C16_OneConversationPerBatch ==
    \A b \in 1..Len(batches) :
        /\ Cardinality({c \in createdBy : c.batch = b}) <= 1
        /\ \A i \in 1..Len(generatedContent) : \A j \in 1..Len(generatedContent) :
              (/\ ~generatedContent[i].loaded /\ ~generatedContent[j].loaded
               /\ generatedContent[i].id \div 10 = b
               /\ generatedContent[j].id \div 10 = b)
                  => generatedContent[i].conv = generatedContent[j].conv

\* C17 as stated: generateSingleImage rejects with the message of the error
\* event, whatever the message.
C17_ErrorEventRejects ==
    (lastSettle.kind = "image" /\ lastSettle.response = "error") =>
        /\ lastSettle.rejected
        /\ lastSettle.message = lastSettle.error

\* C18 as stated (its safety part): a slot is 'generating' exactly while its
\* request is in flight, 'complete' or 'error' after, and the slot of a request
\* in flight is in generationSlots.
C18_SlotLifecycle ==
    /\ \A i \in 1..Len(generationSlots) :
          IF \E r \in requests : r.rid = generationSlots[i].rid
          THEN generationSlots[i].status = "generating"
          ELSE generationSlots[i].status \in {"complete", "error"}
    /\ \A r \in requests :
          \E i \in 1..Len(generationSlots) : generationSlots[i].rid = r.rid

\* C19: activeGenerations is the number of requests in flight, so it is never
\* negative and isLoading (activeGenerations > 0) tells whether one is in flight.
C19_ActiveGenerationsCount ==
    /\ activeGenerations = Cardinality(requests)
    /\ activeGenerations >= 0
    /\ (activeGenerations > 0) <=> (requests # {})

\* An image batch and a video overlap: one request has failed, one has
\* succeeded, one is in flight.
C19_Witness ==
    /\ Len(batches) = 2
    /\ batches[1].kind # batches[2].kind
    /\ activeGenerations = 1
    /\ \E i \in 1..Len(generationSlots) : generationSlots[i].status = "error"
    /\ \E i \in 1..Len(generationSlots) : generationSlots[i].status = "complete"

\* blob.size of the image at url, in units.
ImageSize(url) == url.id

RECURSIVE TotalSize(_)
TotalSize(images) ==
    IF images = {} THEN 0
    ELSE LET img == CHOOSE r \in images : TRUE
         IN ImageSize(img.url) + TotalSize(images \ {img})

\* getCacheStats (supabase.ts:745-760)
getCacheStats ==
    [memoryCount |-> Len(memoryCache), indexedDBCount |-> Cardinality(db),
     totalSize |-> TotalSize(db)]

\* C20 as stated: the table holds at most one record per url, so getCacheStats
\* counts each cached url, and its size, once.
C20_OneRecordPerUrl ==
    LET urls == {r.url : r \in db}
    IN /\ \A r1 \in db : \A r2 \in db : r1.url = r2.url => r1.id = r2.id
       /\ getCacheStats.indexedDBCount = Cardinality(urls)
       /\ getCacheStats.totalSize =
             TotalSize({[url |-> u] : u \in urls})

\* The values of the memory tier's entries.
MapValues(m) == {m[i].blobUrl : i \in 1..Len(m)}

\* C21 as stated: every object URL created by getCachedImageUrl and not revoked
\* is the current value of a memory-cache entry, whatever the interleaving of
\* the calls.
C21_NoObjectUrlLeak == live \subseteq MapValues(memoryCache)

\* The getCachedImageUrl calls that preloadImage(url) made and that are pending.
PendingPreloads(url) == {c \in Pending : c.url = url /\ c.origin = "preload"}

\* preloadImage(url) has a fetch under way: its idle callback is scheduled or the
\* call the callback made is pending.
AtMostOnePreload(url) ==
    /\ url \in scheduled => PendingPreloads(url) = {}
    /\ \A c \in PendingPreloads(url) :
          CopiesIn(c, calls) = 1 /\ PendingPreloads(url) = {c}

\* preloadImage(url) is called in this step.
PreloadImageCalled(url) == PreloadImage(url) \/ PreloadImageSkip(url)

\* preloadImage(url) called now passes both guards and schedules a fetch
\* (supabase.ts:686-696).
SchedulesFetch(url) == ~preloadSkips(url) /\ ~isInMemoryCache(memoryCache, url)

\* C22 as stated, its part on history: once a url was preloaded, a preloadImage
\* of it schedules no fetch from then on, whatever step the program takes next.
C22_NeverPreloadedAgain ==
    [][\A url \in PreloadableUrls :
          url \in preloadedUrls => ~SchedulesFetch(url)']_vars

\* C22 amended: for every url at most one preload-initiated getCachedImageUrl is
\* scheduled or pending, and preloadImage(url) called while url is in
\* preloadingUrls, in preloadedUrls or in the memory cache schedules no fetch.
C22_PreloadsDeduplicated ==
    /\ [](\A url \in Urls : AtMostOnePreload(url))
    /\ [][\A url \in Urls :
            (/\ PreloadImageCalled(url)
             /\ \/ url \in preloadingUrls
                \/ url \in preloadedUrls
                \/ isInMemoryCache(memoryCache, url))
            => UNCHANGED <<scheduled, calls>>]_vars

\* A preload of a url is pending at its fetch while a direct call for the same
\* url is pending as well.
C22_Witness ==
    \E c \in Pending :
        /\ c.origin = "preload"
        /\ c.pc = "fetch"
        /\ c.url \in preloadingUrls
        /\ \E d \in Pending : d.origin = "direct" /\ d.url = c.url

\* isPreloaded (supabase.ts:723-725)
isPreloaded(url) == url \in preloadedUrls \/ isInMemoryCache(memoryCache, url)

\* A getCachedImageUrl(url) started now finds url in the memory tier, or, its
\* read of IndexedDB succeeding, an unexpired record (supabase.ts:646-658): it
\* resolves to the cached object URL before it reaches fetch(url).
ResolvesFromCache(url) ==
    \/ Truthy(getFromMemoryCache(memoryCache, url))
    \/ RecordsOf(db, url) # {} /\ IsFresh(FirstRecord(db, url), now)

\* C23 as stated: while isPreloaded(url) is true, a getCachedImageUrl(url)
\* started at that moment resolves from the cache without a network fetch.
C23_PreloadedImpliesCached ==
    \A url \in RemoteUrls : isPreloaded(url) => ResolvesFromCache(url)

\* The records db.images.where('timestamp').below(cutoff) selects at time t
\* (supabase.ts:767-768); cleanupExpiredCache returns their number.
SweptRecords(table, t) == {r \in table : r.timestamp < t - MAX_CACHE_AGE}

\* The records getFromIndexedDB treats as expired at time t (supabase.ts:606).
ExpiredForRead(table, t) == {r \in table : ~IsFresh(r, t)}

\* C24 as stated: cleanupExpiredCache deletes exactly the records the read path
\* treats as expired, the boundary age included, returns their number, and
\* leaves the other records and the memory tier unchanged.
C24_SweepAgreesWithRead ==
    [][cleanupExpiredCache =>
          /\ db' = db \ ExpiredForRead(db, now)
          /\ Cardinality(SweptRecords(db, now)) = Cardinality(ExpiredForRead(db, now))
          /\ UNCHANGED <<memoryCache, live>>]_vars

\* C25 as stated, for handleNewProject: while no conversation is active (a new
\* project), generatedContent holds no item that belongs to a conversation, so
\* an item whose generation was in flight when the project was started is never
\* added.
C25_ContentOfActiveConversation ==
    conversationId = 0 =>
        \A i \in 1..Len(generatedContent) : generatedContent[i].conv = conversationId

====
